---- MODULE Spec2Model ----
(***************************************************************************)
(* maze2mesh: ASCII maze -> box mesh -> OBJ text + raw tilemap.            *)
(* Model of src/maze2mesh.cpp: the grid loader, the box and plane          *)
(* synthesizers, the per-sub-mesh optimizer pass, the serializer and the   *)
(* control flow of main.                                                   *)
(***************************************************************************)
EXTENDS Integers, Sequences, FiniteSets, TLC

VARIABLES
    pc,         \* position of main: "start","scan","planes","optimize","tilemap","obj","exit","aborted" ("mesh" in SpecMesh)
    input,      \* the input file as the lines getline() returns, in order (each with its '\n' if it has one)
    map,        \* struct Maze: w, h, data, maze, houses, floor, ceiling
    i, j,       \* loop counters of the scan in main
    handles,    \* FILE handles currently open
    attempted,  \* paths fopen() has been called on, in call order
    fs,         \* output files: fs.tilemap / fs.obj are <<>> while the file holds no bytes
    err,        \* which diagnostic main printed to stderr ("" if none)
    exit_code   \* -1 while running, else the value main returned

vars == <<pc, input, map, i, j, handles, attempted, fs, err, exit_code>>

\* ---------------------------------------------------------------- bounds
MaxLen   == 2     \* longest line body (bytes before the terminator)
MaxLines == 2     \* most lines in the input file
MaxDim   == 2     \* SpecMesh: largest w and h
MaxVerts == 16    \* SpecMesh: most vertices over all sub-meshes

\* ---------------------------------------------------------------- bytes
NL       == 10
NUL      == 0
STAR     == 42
SPACE    == 32
SEMI     == 59
CH_A     == 65
CH_Z     == 90
TileBytes == {STAR, CH_A}             \* tile bytes of the modelled data rows
AnyByte   == TileBytes \cup {NUL}     \* what a read outside the buffer may return

\* ---------------------------------------------------------------- floats
\* A float is <<k, n>>: k = 0 is the finite value n (every finite coordinate
\* here is a small integer, exactly representable); k = 1 is
\* numeric_limits<float>::max(), k = -1 is numeric_limits<float>::lowest().
F(n)  == <<0, n>>
f_min == <<-1, 0>>
f_max == <<1, 0>>
FLt(a, b) == \/ a[1] < b[1]
             \/ a[1] = b[1] /\ a[1] = 0 /\ a[2] < b[2]
FLe(a, b) == FLt(a, b) \/ a = b
\* a * s for the positive integer s = scale = 1
FMul(a, s) == IF a[1] = 0 THEN <<0, a[2] * s>> ELSE a
\* a + n for a small integer n (f_max + n rounds back to f_max)
FAdd(a, n) == IF a[1] = 0 THEN <<0, a[2] + n>> ELSE a

Vtx(x, y, z) == [x |-> x, y |-> y, z |-> z]

\* integer division truncating toward zero (C++ '/')
CDiv(a, b) == IF a >= 0 THEN a \div b ELSE -((-a) \div b)

\* ---------------------------------------------------------------- Mesh
SentinelBBox == << Vtx(f_max, f_max, f_max), Vtx(f_min, f_min, f_min) >>

NewMesh == [name |-> "", vertices |-> <<>>, indeces |-> <<>>, bbox |-> SentinelBBox]

scale == 1

boxverts == <<
    Vtx(F(1), F(1), F(-1)),
    Vtx(F(1), F(0), F(-1)),
    Vtx(F(1), F(1), F(0)),
    Vtx(F(1), F(0), F(0)),
    Vtx(F(0), F(1), F(-1)),
    Vtx(F(0), F(0), F(-1)),
    Vtx(F(0), F(1), F(0)),
    Vtx(F(0), F(0), F(0)) >>

boxind == <<
    4, 2, 0, 2, 7, 3,
    6, 5, 7, 1, 7, 5,
    0, 3, 1, 4, 1, 5,
    4, 6, 2, 2, 6, 7,
    6, 4, 5, 1, 3, 7,
    0, 2, 3, 4, 0, 1 >>

rectidx == << 0, 1, 3, 1, 2, 3 >>

\* variant: the max-z comparison is missing
BBoxGrow_noMaxZ(bbox, v) ==
    << Vtx(IF FLt(v.x, bbox[1].x) THEN v.x ELSE bbox[1].x,
           IF FLt(v.y, bbox[1].y) THEN v.y ELSE bbox[1].y,
           IF FLt(v.z, bbox[1].z) THEN v.z ELSE bbox[1].z),
       Vtx(IF FLt(bbox[2].x, v.x) THEN v.x ELSE bbox[2].x,
           IF FLt(bbox[2].y, v.y) THEN v.y ELSE bbox[2].y,
           bbox[2].z) >>

\* the six comparisons of add_box_at's loop body, applied to one vertex
BBoxGrow(bbox, v) ==
    << Vtx(IF FLt(v.x, bbox[1].x) THEN v.x ELSE bbox[1].x,
           IF FLt(v.y, bbox[1].y) THEN v.y ELSE bbox[1].y,
           IF FLt(v.z, bbox[1].z) THEN v.z ELSE bbox[1].z),
       Vtx(IF FLt(bbox[2].x, v.x) THEN v.x ELSE bbox[2].x,
           IF FLt(bbox[2].y, v.y) THEN v.y ELSE bbox[2].y,
           IF FLt(bbox[2].z, v.z) THEN v.z ELSE bbox[2].z) >>

\* variant: the X translation uses the grid height
BoxVertex_xByHeight(w, h, x, y, k) ==
    Vtx(FAdd(FMul(boxverts[k].x, scale), (x - CDiv(h, 2)) * scale),
        FMul(boxverts[k].y, scale),
        FAdd(FMul(boxverts[k].z, scale), (y - CDiv(h, 2)) * scale))

\* one box vertex after scaling and translation to tile (x, y)
BoxVertex(w, h, x, y, k) ==
    Vtx(FAdd(FMul(boxverts[k].x, scale), (x - CDiv(w, 2)) * scale),
        FMul(boxverts[k].y, scale),
        FAdd(FMul(boxverts[k].z, scale), (y - CDiv(h, 2)) * scale))

RECURSIVE BoxLoop(_, _, _, _, _, _)
BoxLoop(w, h, x, y, mesh, k) ==
    IF k > Len(boxverts) THEN mesh
    ELSE LET v == BoxVertex(w, h, x, y, k)
         IN  BoxLoop(w, h, x, y,
                     [mesh EXCEPT !.bbox = BBoxGrow(mesh.bbox, v),
                                  !.vertices = Append(mesh.vertices, v)],
                     k + 1)

\* variant: the cube index pattern is appended without the base_vrt offset
add_box_at_noBase(w, h, x, y, mesh) ==
    LET m1 == BoxLoop(w, h, x, y, mesh, 1)
    IN  [m1 EXCEPT !.indeces = mesh.indeces \o [k \in 1..Len(boxind) |-> boxind[k]]]

add_box_at(w, h, x, y, mesh) ==
    LET base_vrt == Len(mesh.vertices)
        m1 == BoxLoop(w, h, x, y, mesh, 1)
    IN  [m1 EXCEPT !.indeces = mesh.indeces \o [k \in 1..Len(boxind) |-> base_vrt + boxind[k]]]

add_bbox_plane(mesh, bbox, ypos) ==
    LET base_vrt == Len(mesh.vertices)
        rectverts == << Vtx(bbox[2].x, ypos, bbox[2].z),
                        Vtx(bbox[2].x, ypos, bbox[1].z),
                        Vtx(bbox[1].x, ypos, bbox[1].z),
                        Vtx(bbox[1].x, ypos, bbox[2].z) >>
        scaled == [k \in 1..4 |-> Vtx(FMul(rectverts[k].x, scale),
                                      FMul(rectverts[k].y, scale),
                                      FMul(rectverts[k].z, scale))]
    IN  [mesh EXCEPT !.vertices = mesh.vertices \o scaled,
                     !.indeces = mesh.indeces \o [k \in 1..Len(rectidx) |-> base_vrt + rectidx[k]]]

\* ---------------------------------------------------------------- Mesh::optimize
NONE == -1      \* ~0u, "not yet assigned" in the remap table

\* meshopt_generateVertexRemap: the index buffer is walked in order; a vertex
\* slot met for the first time gets the canonical slot of an equal vertex met
\* earlier, or else the next free canonical slot; an unreferenced slot keeps
\* ~0u.  Hence the canonical slot of a referenced vertex is the number of
\* distinct vertex values referenced before the first reference to its value.
meshopt_generateVertexRemap(indeces, vertices) ==
    LET ni   == Len(indeces)
        vals == <<>> \o [k \in 1..ni |-> vertices[indeces[k] + 1]]
        used == {indeces[k] + 1 : k \in 1..ni}
    IN  <<>> \o [s \in 1..Len(vertices) |->
            IF s \notin used THEN NONE
            ELSE LET p == CHOOSE k \in 1..ni :
                              /\ vals[k] = vertices[s]
                              /\ \A k2 \in 1..(k - 1) : vals[k2] # vertices[s]
                 IN  Cardinality({vals[k] : k \in 1..(p - 1)})]

meshopt_remapIndexBuffer(indeces, remap) ==
    [k \in 1..Len(indeces) |-> remap[indeces[k] + 1]]

\* destination[remap[i]] = vertices[i] for i ascending: the last writer wins
meshopt_remapVertexBuffer(vertices, remap, count) ==
    [t \in 1..count |->
        LET src == {k \in 1..Len(vertices) : remap[k] = t - 1}
        IN  vertices[CHOOSE k \in src : \A k2 \in src : k2 <= k]]

Mesh_optimize(mesh) ==
    LET remap == meshopt_generateVertexRemap(mesh.indeces, mesh.vertices)
        opt_vertex_count == Cardinality({remap[k] : k \in 1..Len(remap)} \ {NONE})
    IN  [mesh EXCEPT !.vertices = meshopt_remapVertexBuffer(mesh.vertices, remap, opt_vertex_count),
                     !.indeces  = meshopt_remapIndexBuffer(mesh.indeces, remap)]

\* ---------------------------------------------------------------- load_maze
\* strlen: bytes before the first NUL (the buffer is NUL-terminated after the line)
RECURSIVE strlen(_)
strlen(line) == IF line = <<>> \/ Head(line) = NUL THEN 0 ELSE 1 + strlen(Tail(line))

\* the 'continue' test of both passes: !line || !*line || *line == ';'
Skipped(line) == line = <<>> \/ line[1] = NUL \/ line[1] = SEMI

\* first pass: dims = [max_w, max_h]
RECURSIVE Pass1(_, _, _)
Pass1(lines, k, dims) ==
    IF k > Len(lines) THEN dims
    ELSE IF Skipped(lines[k]) THEN Pass1(lines, k + 1, dims)
    ELSE LET len == strlen(lines[k]) - 1
         IN  Pass1(lines, k + 1,
                   [max_w |-> IF len > dims.max_w THEN len ELSE dims.max_w,
                    max_h |-> dims.max_h + 1])

\* second pass: memcpy(&data[idx], line, len); idx += w
RECURSIVE Pass2(_, _, _, _, _)
Pass2(lines, k, w, idx, data) ==
    IF k > Len(lines) THEN data
    ELSE IF Skipped(lines[k]) THEN Pass2(lines, k + 1, w, idx, data)
    ELSE LET len == strlen(lines[k]) - 1
         IN  Pass2(lines, k + 1, w, idx + w,
                   [c \in 1..Len(data) |->
                        IF c > idx /\ c <= idx + len THEN lines[k][c - idx] ELSE data[c]])

load_maze(lines) ==
    LET dims == Pass1(lines, 1, [max_w |-> 0, max_h |-> 0])
        zero == [c \in 1..(dims.max_w * dims.max_h) |-> NUL]
    IN  [w |-> dims.max_w, h |-> dims.max_h,
         data |-> Pass2(lines, 1, dims.max_w, 0, zero)]

\* &map.data[idx] is formed on an empty vector when rows exist but w = 0
LoadTouchesEmptyVector(lines) ==
    LET dims == Pass1(lines, 1, [max_w |-> 0, max_h |-> 0])
    IN  dims.max_h > 0 /\ dims.max_w = 0

\* ---------------------------------------------------------------- write_mesh / write_map_obj
\* variant: the faces are written without the running vertex offset
write_mesh_noOffset(out, mesh) ==
    IF Len(mesh.vertices) = 0 THEN out
    ELSE LET tvc == out.total_vertex_count
             nf  == (Len(mesh.indeces) + 2) \div 3
         IN  [lines |-> out.lines
                        \o << <<"o", mesh.name>> >>
                        \o [k \in 1..Len(mesh.vertices) |->
                              <<"v", mesh.vertices[k].x, mesh.vertices[k].y, mesh.vertices[k].z>>]
                        \o << <<"s", 0>> >>
                        \o [k \in 1..nf |->
                              <<"f", 1 + mesh.indeces[3 * k - 2],
                                     1 + mesh.indeces[3 * k - 1],
                                     1 + mesh.indeces[3 * k]>>],
              total_vertex_count |-> tvc + Len(mesh.vertices)]

\* out = [lines, total_vertex_count]
write_mesh(out, mesh) ==
    IF Len(mesh.vertices) = 0 THEN out
    ELSE LET tvc == out.total_vertex_count
             nf  == (Len(mesh.indeces) + 2) \div 3
         IN  [lines |-> out.lines
                        \o << <<"o", mesh.name>> >>
                        \o [k \in 1..Len(mesh.vertices) |->
                              <<"v", mesh.vertices[k].x, mesh.vertices[k].y, mesh.vertices[k].z>>]
                        \o << <<"s", 0>> >>
                        \o [k \in 1..nf |->
                              <<"f", 1 + tvc + mesh.indeces[3 * k - 2],
                                     1 + tvc + mesh.indeces[3 * k - 1],
                                     1 + tvc + mesh.indeces[3 * k]>>],
              total_vertex_count |-> tvc + Len(mesh.vertices)]

write_map_obj(m) ==
    LET o0 == [lines |-> << <<"#", "maze2mesh">> >>, total_vertex_count |-> 0]
        o1 == write_mesh(o0, m.maze)
        o2 == write_mesh(o1, m.houses)
        o3 == write_mesh(o2, m.floor)
        o4 == write_mesh(o3, m.ceiling)
    IN  o4

\* ---------------------------------------------------------------- main
do_write_tilemap      == TRUE
do_zero_unknown_tiles == FALSE
do_meshopt            == TRUE
do_floor              == TRUE
do_ceil               == FALSE

EXIT_SUCCESS == 0
EXIT_FAILURE == 1
RUNNING      == -1

MeshNames == {"maze", "houses", "floor", "ceiling"}

\* where the scan stands once the loop headers have been evaluated from (i, j):
\* the next cell whose body runs, or past the end
ScanNext(w, h, ii, jj) ==
    IF jj >= h THEN [pc |-> "planes", i |-> 0, j |-> jj]
    ELSE IF ii < w THEN [pc |-> "scan", i |-> ii, j |-> jj]
    ELSE IF w > 0 /\ jj + 1 < h THEN [pc |-> "scan", i |-> 0, j |-> jj + 1]
    ELSE [pc |-> "planes", i |-> 0, j |-> h]

\* the index the scan computes for cell (i, j)
ScanIdx(m, ii, jj) == jj * m.h + ii

InBuffer(m, idx) == idx >= 0 /\ idx < Len(m.data)

\* the switch of the scan body, for the byte read at idx
Dispatch(m, ii, jj, idx, tile) ==
    IF tile = STAR
    THEN [m EXCEPT !.maze = add_box_at(m.w, m.h, ii, jj, m.maze)]
    ELSE IF tile >= CH_A /\ tile <= CH_Z
    THEN [m EXCEPT !.houses = add_box_at(m.w, m.h, ii, jj, m.houses)]
    ELSE IF do_zero_unknown_tiles /\ tile # SPACE /\ InBuffer(m, idx)
    THEN [m EXCEPT !.data[idx + 1] = NUL]
    ELSE m

\* fopen(filename) fails: load_maze returns false, main reports and returns
LoadFail ==
    /\ pc = "start"
    /\ attempted' = Append(attempted, "in")
    /\ err' = "Error loading map"
    /\ exit_code' = EXIT_FAILURE
    /\ pc' = "exit"
    /\ UNCHANGED <<input, map, i, j, handles, fs>>

\* load_maze succeeds; main names the two tile sub-meshes and enters the scan
Load ==
    /\ pc = "start"
    /\ LET g == load_maze(input)
           n == ScanNext(g.w, g.h, 0, 0)
       IN  /\ map' = [map EXCEPT !.w = g.w, !.h = g.h, !.data = g.data,
                                 !.maze.name = "maze", !.houses.name = "houses"]
           /\ pc' = n.pc /\ i' = n.i /\ j' = n.j
    /\ attempted' = Append(attempted, "in")
    /\ handles' = (handles \cup {"in"}) \ {"in"}
    /\ UNCHANGED <<input, fs, err, exit_code>>

\* one iteration of the inner loop body
ScanCell ==
    /\ pc = "scan"
    /\ LET idx == ScanIdx(map, i, j)
           n   == ScanNext(map.w, map.h, i + 1, j)
       IN  /\ \E tile \in (IF InBuffer(map, idx) THEN {map.data[idx + 1]} ELSE AnyByte) :
                  map' = Dispatch(map, i, j, idx, tile)
           /\ pc' = n.pc /\ i' = n.i /\ j' = n.j
    /\ UNCHANGED <<input, handles, attempted, fs, err, exit_code>>

\* floor and ceiling from the maze sub-mesh's bounding box
Planes ==
    /\ pc = "planes"
    /\ LET m1 == IF do_floor
                 THEN [map EXCEPT !.floor = add_bbox_plane([map.floor EXCEPT !.name = "floor"],
                                                           map.maze.bbox, map.maze.bbox[1].y)]
                 ELSE map
           m2 == IF do_ceil
                 THEN [m1 EXCEPT !.ceiling = add_bbox_plane([m1.ceiling EXCEPT !.name = "ceiling"],
                                                            m1.maze.bbox, m1.maze.bbox[2].y)]
                 ELSE m1
       IN  map' = m2
    /\ pc' = "optimize"
    /\ UNCHANGED <<input, i, j, handles, attempted, fs, err, exit_code>>

Optimize ==
    /\ pc = "optimize"
    /\ map' = IF do_meshopt
              THEN [map EXCEPT !.maze = Mesh_optimize(map.maze),
                               !.houses = Mesh_optimize(map.houses)]
              ELSE map
    /\ pc' = IF do_write_tilemap THEN "tilemap" ELSE "obj"
    /\ UNCHANGED <<input, i, j, handles, attempted, fs, err, exit_code>>

WriteTilemap ==
    /\ pc = "tilemap"
    /\ attempted' = Append(attempted, "tilemap")
    /\ handles' = (handles \cup {"tilemap"}) \ {"tilemap"}
    /\ fs' = [fs EXCEPT !.tilemap = <<map.w, map.h>> \o map.data]
    /\ pc' = "obj"
    /\ UNCHANGED <<input, map, i, j, err, exit_code>>

\* variant: the failure is reported but the run goes on to the mesh file
TilemapFail_goesOn ==
    /\ pc = "tilemap"
    /\ attempted' = Append(attempted, "tilemap")
    /\ err' = "Error writing tilemap"
    /\ pc' = "obj"
    /\ UNCHANGED <<input, map, i, j, handles, fs, exit_code>>

\* fopen("maze1.tilemap.bin", "wb") fails: main reports and returns
TilemapFail ==
    /\ pc = "tilemap"
    /\ attempted' = Append(attempted, "tilemap")
    /\ err' = "Error writing tilemap"
    /\ exit_code' = EXIT_FAILURE
    /\ pc' = "exit"
    /\ UNCHANGED <<input, map, i, j, handles, fs>>

WriteObj ==
    /\ pc = "obj"
    /\ attempted' = Append(attempted, "obj")
    /\ handles' = (handles \cup {"obj"}) \ {"obj"}
    /\ fs' = [fs EXCEPT !.obj = write_map_obj(map).lines]
    /\ exit_code' = EXIT_SUCCESS
    /\ pc' = "exit"
    /\ UNCHANGED <<input, map, i, j, err>>

ObjFail ==
    /\ pc = "obj"
    /\ attempted' = Append(attempted, "obj")
    /\ err' = "Error writing mesh"
    /\ exit_code' = EXIT_FAILURE
    /\ pc' = "exit"
    /\ UNCHANGED <<input, map, i, j, handles, fs>>

\* Undefined behaviour that a checked build turns into an abort: an element
\* access outside map.data in the scan, and operator[] on an empty vector in
\* load_maze (&map.data[idx]), Mesh::optimize (&remap[0], &indeces[0],
\* &vertices[0]) and the tilemap write (&map.data[0]).
Fault ==
    /\ \* load_maze: lines 124-126 have stored the dimensions and the (empty)
       \* buffer when the second pass forms &map.data[idx]
       \/ /\ pc = "start" /\ LoadTouchesEmptyVector(input)
          /\ attempted' = Append(attempted, "in")
          /\ handles' = handles \cup {"in"}
          /\ LET g == load_maze(input)
             IN  map' = [map EXCEPT !.w = g.w, !.h = g.h, !.data = g.data]
          /\ UNCHANGED fs
       \/ /\ pc = "scan" /\ ~InBuffer(map, ScanIdx(map, i, j))
          /\ UNCHANGED <<map, attempted, handles, fs>>
       \* map.maze.optimize() aborts on an empty maze before changing it;
       \* otherwise it completes and map.houses.optimize() aborts on empty houses
       \/ /\ pc = "optimize" /\ do_meshopt
          /\ (Len(map.maze.vertices) = 0 \/ Len(map.houses.vertices) = 0)
          /\ map' = IF Len(map.maze.vertices) = 0 THEN map
                    ELSE [map EXCEPT !.maze = Mesh_optimize(map.maze)]
          /\ UNCHANGED <<attempted, handles, fs>>
       \* the two fwrite calls before &map.data[0] are still in the stdio
       \* buffer, which abort() does not flush: the file is created but empty
       \/ /\ pc = "tilemap" /\ Len(map.data) = 0
          /\ attempted' = Append(attempted, "tilemap")
          /\ handles' = handles \cup {"tilemap"}
          /\ UNCHANGED <<map, fs>>
    /\ pc' = "aborted"
    /\ UNCHANGED <<input, i, j, err, exit_code>>

\* ---------------------------------------------------------------- inputs
\* line bodies: data rows of up to MaxLen tiles (the empty line included) and a comment line
LineBodies == UNION {[1..n -> TileBytes] : n \in 0..MaxLen} \cup {<<SEMI, STAR>>}

\* the lines getline() returns for a file with the line bodies b, whose last
\* line has its terminator iff nl
FileLines(b, nl) == [k \in 1..Len(b) |-> IF k = Len(b) /\ ~nl THEN b[k] ELSE b[k] \o <<NL>>]

EmptyMaze == [w |-> 0, h |-> 0, data |-> <<>>,
              maze |-> NewMesh, houses |-> NewMesh, floor |-> NewMesh, ceiling |-> NewMesh]

Init ==
    /\ pc = "start"
    /\ \E n \in 0..MaxLines, nl \in BOOLEAN :
          \E b \in [1..n -> LineBodies] :
              \* a last line without terminator is not empty
              /\ nl \/ (n > 0 /\ b[n] # <<>>)
              /\ input = FileLines(b, nl)
    /\ map = EmptyMaze
    /\ i = 0 /\ j = 0
    /\ handles = {}
    /\ attempted = <<>>
    /\ fs = [tilemap |-> <<>>, obj |-> <<>>]
    /\ err = ""
    /\ exit_code = RUNNING

Next ==
    \/ LoadFail
    \/ Load
    \/ ScanCell
    \/ Planes
    \/ Optimize
    \/ WriteTilemap
    \/ TilemapFail
    \/ WriteObj
    \/ ObjFail
    \/ Fault

Spec == Init /\ [][Next]_vars

\* ---------------------------------------------------------------- the synthesizers and the serializer on their own
\* SpecMesh applies add_box_at, add_bbox_plane and write_map_obj to arbitrary
\* grid dimensions, tile positions and prior sub-mesh contents: boxes go into
\* maze and houses, planes (from the maze bounding box) into houses, floor and
\* ceiling, so houses mixes both kinds of call and maze holds boxes only.
TotalVerts(m) == Len(m.maze.vertices) + Len(m.houses.vertices)
                 + Len(m.floor.vertices) + Len(m.ceiling.vertices)

MeshAddBox(name, x, y) ==
    /\ pc = "mesh"
    /\ TotalVerts(map) + 8 <= MaxVerts
    /\ map' = [map EXCEPT ![name] = add_box_at(map.w, map.h, x, y, map[name])]
    /\ UNCHANGED <<pc, input, i, j, handles, attempted, fs, err, exit_code>>

MeshAddPlane(name, ypos) ==
    /\ pc = "mesh"
    /\ TotalVerts(map) + 4 <= MaxVerts
    /\ map' = [map EXCEPT ![name] = add_bbox_plane(map[name], map.maze.bbox, ypos)]
    /\ UNCHANGED <<pc, input, i, j, handles, attempted, fs, err, exit_code>>

\* write_map_obj with the open succeeding: the file is opened, written and
\* closed, and the call returns true
MeshWrite ==
    /\ pc = "mesh"
    /\ attempted' = Append(attempted, "obj")
    /\ handles' = (handles \cup {"obj"}) \ {"obj"}
    /\ fs' = [fs EXCEPT !.obj = write_map_obj(map).lines]
    /\ pc' = "written"
    /\ UNCHANGED <<input, map, i, j, err, exit_code>>

\* write_map_obj with fopen failing: it returns false with nothing written
MeshWriteFail ==
    /\ pc = "mesh"
    /\ attempted' = Append(attempted, "obj")
    /\ pc' = "unwritten"
    /\ UNCHANGED <<input, map, i, j, handles, fs, err, exit_code>>

InitMesh ==
    /\ pc = "mesh"
    /\ input = <<>>
    /\ \E w \in 0..MaxDim, h \in 0..MaxDim :
          map = [EmptyMaze EXCEPT !.w = w, !.h = h, !.data = [c \in 1..(w * h) |-> NUL],
                                  !.maze.name = "maze", !.houses.name = "houses",
                                  !.floor.name = "floor", !.ceiling.name = "ceiling"]
    /\ i = 0 /\ j = 0
    /\ handles = {}
    /\ attempted = <<>>
    /\ fs = [tilemap |-> <<>>, obj |-> <<>>]
    /\ err = ""
    /\ exit_code = RUNNING

NextMesh ==
    \/ \E name \in {"maze", "houses"}, x \in 0..(map.w - 1), y \in 0..(map.h - 1) :
          MeshAddBox(name, x, y)
    \/ \E name \in {"houses", "floor", "ceiling"}, ypos \in {map.maze.bbox[1].y, map.maze.bbox[2].y} :
          MeshAddPlane(name, ypos)
    \/ MeshWrite
    \/ MeshWriteFail

SpecMesh == InitMesh /\ [][NextMesh]_vars

\* ================================================================ claims
\* ---------------------------------------------------------------- helpers of the claims
AfterLoad == pc \in {"scan", "planes"}

\* a line's bytes without its line terminator
Stripped(line) == IF line # <<>> /\ line[Len(line)] = NL THEN SubSeq(line, 1, Len(line) - 1) ELSE line

IsBlank(line)   == Stripped(line) = <<>>
IsComment(line) == line # <<>> /\ line[1] = SEMI

MaxOf(S) == IF S = {} THEN 0 ELSE CHOOSE n \in S : \A n2 \in S : n2 <= n

\* C1: the scan visits the cells in row-major order and dispatches each cell
\* (i, j) on the tile at offset j*w + i: a box goes into maze exactly when
\* that tile is '*', into houses exactly when it is in 'A'..'Z', and nothing
\* is added otherwise.
C1_ScanDispatch ==
    [][(pc = "scan" /\ pc' # "aborted") =>
        LET tile == map.data[j * map.w + i + 1]
            dm == Len(map'.maze.vertices) - Len(map.maze.vertices)
            dh == Len(map'.houses.vertices) - Len(map.houses.vertices)
        IN  /\ dm = (IF tile = STAR THEN 8 ELSE 0)
            /\ dh = (IF tile >= CH_A /\ tile <= CH_Z THEN 8 ELSE 0)
            /\ map'.floor = map.floor /\ map'.ceiling = map.ceiling
            /\ pc' = "scan" => j' * map.w + i' = j * map.w + i + 1
            /\ pc' # "scan" => j * map.w + i + 1 = map.w * map.h
    ]_vars

\* C10: every index the scan computes lies inside the tile buffer.
C10_ScanInBounds ==
    pc = "scan" => (0 <= ScanIdx(map, i, j) /\ ScanIdx(map, i, j) < map.w * map.h)

\* C3: lines that are empty or begin with ';' add no row: h is the number of
\* input lines that are neither empty nor comments.
C3_SkipBlankAndComment ==
    AfterLoad =>
        map.h = Cardinality({k \in 1..Len(input) : ~IsBlank(input[k]) /\ ~IsComment(input[k])})

\* C4: w is the longest data line (terminator stripped, no tile byte dropped),
\* data has w*h cells, and row r holds the r-th data line's bytes followed by
\* zeros.  A data line is taken here as every line the loader does not skip.
C4_Rows == LET ks == {k \in 1..Len(input) : ~Skipped(input[k])}
           IN  [r \in 1..Cardinality(ks) |->
                   Stripped(input[CHOOSE k \in ks : Cardinality({k2 \in ks : k2 < k}) = r - 1])]

C4_Layout ==
    AfterLoad =>
        LET rows == C4_Rows
        IN  /\ map.w = MaxOf({Len(rows[r]) : r \in 1..Len(rows)})
            /\ map.h = Len(rows)
            /\ Len(map.data) = map.w * map.h
            /\ \A r \in 1..Len(rows) : \A c \in 1..map.w :
                   (r - 1) * map.w + c <= Len(map.data)
                   /\ map.data[(r - 1) * map.w + c]
                        = (IF c <= Len(rows[r]) THEN rows[r][c] ELSE NUL)

\* C8: a floor or ceiling is only ever synthesized from a maze bounding box
\* that at least one box insertion has tightened.
C8_NoPlaneFromSentinel ==
    (Len(map.floor.vertices) > 0 \/ Len(map.ceiling.vertices) > 0)
        => map.maze.bbox # SentinelBBox

\* ---------------------------------------------------------------- C5
\* the vertices / indices a step appended to sub-mesh name
NewVerts(name) == SubSeq(map'[name].vertices, Len(map[name].vertices) + 1, Len(map'[name].vertices))
NewInds(name)  == SubSeq(map'[name].indeces, Len(map[name].indeces) + 1, Len(map'[name].indeces))
KeepsPrior(name) ==
    /\ SubSeq(map'[name].vertices, 1, Len(map[name].vertices)) = map[name].vertices
    /\ SubSeq(map'[name].indeces, 1, Len(map[name].indeces)) = map[name].indeces

C5_Step ==
    \A name \in {"maze", "houses"}, x \in 0..(map.w - 1), y \in 0..(map.h - 1) :
        MeshAddBox(name, x, y) =>
            LET n == Len(map[name].vertices)
            IN  /\ KeepsPrior(name)
                /\ Len(NewVerts(name)) = 8
                /\ Len(NewInds(name)) = 36
                /\ \A k \in 1..36 : NewInds(name)[k] >= n /\ NewInds(name)[k] < n + 8

C5_Inv ==
    \A name \in MeshNames :
        /\ Len(map[name].indeces) % 3 = 0
        /\ \A k \in 1..Len(map[name].indeces) :
               map[name].indeces[k] >= 0 /\ map[name].indeces[k] < Len(map[name].vertices)

\* C5: every add_box_at call appends exactly 8 vertices and 36 indices, each
\* new index in [n, n+8) for n the vertex count before the call; and after any
\* sequence of add_box_at and add_bbox_plane calls every index buffer has a
\* length divisible by 3 and only indices below its sub-mesh's vertex count.
C5_BoxAppends == []C5_Inv /\ [][C5_Step]_vars

\* a sub-mesh that received a plane and then a box
C5_Witness ==
    /\ pc = "mesh"
    /\ Len(map.houses.vertices) = 12 /\ Len(map.houses.indeces) = 42
    /\ map.houses.indeces[42] = 5

\* ---------------------------------------------------------------- C6
C6_Mono ==
    /\ FLe(map'.maze.bbox[1].x, map.maze.bbox[1].x)
    /\ FLe(map'.maze.bbox[1].y, map.maze.bbox[1].y)
    /\ FLe(map'.maze.bbox[1].z, map.maze.bbox[1].z)
    /\ FLe(map.maze.bbox[2].x, map'.maze.bbox[2].x)
    /\ FLe(map.maze.bbox[2].y, map'.maze.bbox[2].y)
    /\ FLe(map.maze.bbox[2].z, map'.maze.bbox[2].z)

C6_Inv ==
    LET vs == map.maze.vertices
        lo == map.maze.bbox[1]
        hi == map.maze.bbox[2]
        V  == {vs[k] : k \in 1..Len(vs)}
    IN  IF vs = <<>> THEN map.maze.bbox = SentinelBBox
        ELSE /\ FLe(lo.x, hi.x) /\ FLe(lo.y, hi.y) /\ FLe(lo.z, hi.z)
             /\ \A v \in V : /\ FLe(lo.x, v.x) /\ FLe(v.x, hi.x)
                             /\ FLe(lo.y, v.y) /\ FLe(v.y, hi.y)
                             /\ FLe(lo.z, v.z) /\ FLe(v.z, hi.z)
             /\ \E v \in V : v.x = lo.x
             /\ \E v \in V : v.y = lo.y
             /\ \E v \in V : v.z = lo.z
             /\ \E v \in V : v.x = hi.x
             /\ \E v \in V : v.y = hi.y
             /\ \E v \in V : v.z = hi.z

\* C6: over any sequence of add_box_at calls on a sub-mesh that starts with
\* the sentinel box, no component of the min corner ever increases and none
\* of the max corner ever decreases; once a box has been added min <= max in
\* every component and the box is the component-wise min/max of the
\* sub-mesh's vertices.
C6_BBoxMonotone == []C6_Inv /\ [][C6_Mono]_vars

\* two boxes on different tiles: the second call widened an already tight box
C6_Witness ==
    /\ Len(map.maze.vertices) = 16
    /\ map.maze.bbox[1].x = F(-1) /\ map.maze.bbox[2].x = F(1)

\* ---------------------------------------------------------------- C7
\* twice the X (Z) centre of the vertices a step appended
SumMinMaxX(vs) == LET S == {vs[k].x[2] : k \in 1..Len(vs)}
                  IN  (CHOOSE a \in S : \A b \in S : a <= b) + (CHOOSE a \in S : \A b \in S : b <= a)
SumMinMaxZ(vs) == LET S == {vs[k].z[2] : k \in 1..Len(vs)}
                  IN  (CHOOSE a \in S : \A b \in S : a <= b) + (CHOOSE a \in S : \A b \in S : b <= a)

\* C7 as claimed: the box for tile (w/2, h/2) has its X/Z centre at (0, 0).
C7_CenteredAtOrigin ==
    [][\A name \in {"maze", "houses"} :
          MeshAddBox(name, CDiv(map.w, 2), CDiv(map.h, 2)) =>
              /\ SumMinMaxX(NewVerts(name)) = 0
              /\ SumMinMaxZ(NewVerts(name)) = 0
    ]_vars

\* C7 amended: the box for tile (w/2, h/2) has a corner, not its centre, at
\* the origin: it spans X in [0, scale] and Z in [-scale, 0], so its X/Z
\* centre is (scale/2, -scale/2).
C7_CornerAtOrigin ==
    [][\A name \in {"maze", "houses"} :
          MeshAddBox(name, CDiv(map.w, 2), CDiv(map.h, 2)) =>
              LET vs == NewVerts(name)
              IN  /\ {vs[k].x : k \in 1..Len(vs)} = {F(0), F(scale)}
                  /\ {vs[k].z : k \in 1..Len(vs)} = {F(-scale), F(0)}
                  /\ SumMinMaxX(vs) = scale
                  /\ SumMinMaxZ(vs) = -scale
    ]_vars

\* the maze sub-mesh holds exactly the box of tile (w/2, h/2) of a 2x1 grid
C7_Witness ==
    /\ map.w = 2 /\ map.h = 1
    /\ Len(map.maze.vertices) = 8
    /\ map.maze.vertices[8] = Vtx(F(0), F(0), F(0))

\* ---------------------------------------------------------------- C2
EmissionOrder == <<"maze", "houses", "floor", "ceiling">>

NonEmptyMesh(name) == Len(map[name].vertices) > 0
IsObjectLine(l) == l[1] = "o"

\* vertices of the sub-meshes emitted before the one at place n of the order
VertsBefore(n) ==
    LET cnt == [k \in 1..4 |-> IF k < n THEN Len(map[EmissionOrder[k]].vertices) ELSE 0]
    IN  cnt[1] + cnt[2] + cnt[3] + cnt[4]

\* number of "v" lines among the first p lines of the file
VLinesUpTo(p) == Cardinality({q \in 1..p : fs.obj[q][1] = "v"})

C2_Block(n) ==
    LET name == EmissionOrder[n]
        mesh == map[name]
        nv   == Len(mesh.vertices)
        L    == fs.obj
        at   == {p \in 1..Len(L) : L[p] = <<"o", name>>}
    IN  IF nv = 0 THEN at = {}
        ELSE /\ Cardinality(at) = 1
             /\ LET po == CHOOSE p \in at : TRUE
                IN  /\ po + nv + 1 + (Len(mesh.indeces) \div 3) <= Len(L)
                    /\ VLinesUpTo(po) = VertsBefore(n)
                    /\ \A k \in 1..nv : L[po + k][1] = "v"
                    /\ L[po + nv + 1][1] = "s"
                    /\ \A t \in 1..(Len(mesh.indeces) \div 3) : \A c \in 1..3 :
                          LET a == L[po + nv + 1 + t][c + 1]
                          IN  /\ L[po + nv + 1 + t][1] = "f"
                              /\ a = 1 + VertsBefore(n) + mesh.indeces[3 * (t - 1) + c]
                              /\ a >= 1 /\ a <= TotalVerts(map)
                              /\ a > VLinesUpTo(po) /\ a <= VLinesUpTo(po + nv)

\* C2: the OBJ file holds one object block per non-empty sub-mesh, in the
\* order maze, houses, floor, ceiling, and nothing for an empty sub-mesh;
\* every face index equals 1 + (vertices of the sub-meshes written before)
\* + the local index, lies in 1..(total vertex count) and names a vertex
\* line of its own block.
C2_FaceOffsets ==
    fs.obj # <<>> =>
        /\ LET objs == SelectSeq(fs.obj, IsObjectLine)
           IN  [k \in 1..Len(objs) |-> objs[k][2]] = SelectSeq(EmissionOrder, NonEmptyMesh)
        /\ Len(fs.obj) = 1 + VLinesUpTo(Len(fs.obj))
                           + Cardinality({q \in 1..Len(fs.obj) : fs.obj[q][1] \in {"o", "s", "f"}})
        /\ VLinesUpTo(Len(fs.obj)) = TotalVerts(map)
        /\ \A n \in 1..4 : C2_Block(n)

\* vertex counts [8, 0, 4, ...]: houses is skipped and the floor's faces are offset by 8
C2_Witness ==
    /\ fs.obj # <<>>
    /\ Len(map.maze.vertices) = 8 /\ Len(map.houses.vertices) = 0 /\ Len(map.floor.vertices) = 4
    /\ \E p \in 1..Len(fs.obj) : fs.obj[p] = <<"f", 9, 10, 12>>

\* ---------------------------------------------------------------- C9
IsPrefix(s, t) == Len(s) <= Len(t) /\ SubSeq(t, 1, Len(s)) = s

\* C9: the stages fail fast in the order load, tilemap, mesh.  A failed input
\* open ends the run non-zero with no sub-mesh touched and no output opened;
\* a failed tilemap open ends it non-zero with the mesh file never attempted;
\* a failed mesh open ends it non-zero with the tilemap still written; the
\* run returns 0 only if every enabled stage succeeded; and on each of these
\* exits every handle that was opened is closed.
C9_FailFast ==
    /\ IsPrefix(attempted, <<"in", "tilemap", "obj">>)
    /\ exit_code # RUNNING <=> pc = "exit"
    /\ pc = "exit" => handles = {}
    /\ err # "" => exit_code = EXIT_FAILURE
    /\ err = "Error loading map" =>
          /\ map = EmptyMaze
          /\ attempted = <<"in">>
          /\ fs = [tilemap |-> <<>>, obj |-> <<>>]
    /\ err = "Error writing tilemap" =>
          /\ attempted = <<"in", "tilemap">>
          /\ fs = [tilemap |-> <<>>, obj |-> <<>>]
    /\ err = "Error writing mesh" =>
          /\ attempted = <<"in", "tilemap", "obj">>
          /\ fs.tilemap = <<map.w, map.h>> \o map.data
          /\ fs.obj = <<>>
    /\ exit_code = EXIT_SUCCESS =>
          /\ err = ""
          /\ attempted = <<"in", "tilemap", "obj">>
          /\ fs.tilemap = <<map.w, map.h>> \o map.data
          /\ fs.obj # <<>>
    /\ exit_code = EXIT_FAILURE => err # ""

\* the mesh file could not be opened after a 2x2 tilemap had been written
C9_Witness ==
    /\ pc = "exit" /\ exit_code = EXIT_FAILURE
    /\ err = "Error writing mesh"
    /\ Len(fs.tilemap) = 6
    /\ handles = {}

====
